---- MODULE Spec2Model ----
(***************************************************************************)
(* Model of trainer/task.py: the command-line driver of the MNIST image    *)
(* classifier.  The script parses its flags into the hyperparameter        *)
(* record, drops the keys the service adds, computes the output path from  *)
(* TF_CONFIG, derives train_steps and calls learn_runner.run once.  The    *)
(* framework then calls experiment_fn and the model function               *)
(* image_classifier.  Strings that the script manipulates character by     *)
(* character (paths) are sequences of one-character strings; integers are  *)
(* Python 2 ints (unbounded, "/" and "//" both floor).                     *)
(***************************************************************************)
EXTENDS Integers, Sequences, FiniteSets, TLC

VARIABLES
  pc,             \* position of the script
  argv,           \* the command line: a function from the flags given to their values
  env,            \* the TF_CONFIG environment variable
  hparams,        \* args.__dict__, the hyperparameter record
  output_dir,     \* the local variable output_dir of __main__
  error,          \* the exception that ended the process, "none" while there is none
  runCalls,       \* number of calls of learn_runner.run
  run_args,       \* the arguments of the call of learn_runner.run
  experiment,     \* the Experiment built by experiment_fn
  built,          \* the model functions invoked by image_classifier
  spec,           \* the EstimatorSpec image_classifier returned last
  modelFnCalls    \* number of calls of image_classifier

vars == <<pc, argv, env, hparams, output_dir, error, runCalls, run_args,
          experiment, built, spec, modelFnCalls>>

-----------------------------------------------------------------------------
(* Bounds of the model *)

MaxStrLen == 1          \* longest --output_dir and trial id
MaxModelFnCalls == 2    \* calls of the model function the run loop makes
MaxBatch == 300         \* widest --train_batch_size of the wide command lines
MaxSteps == 10250       \* widest --train_steps of the wide command lines

(* Program constants *)

DefaultTrainBatchSize == 100
DefaultTrainSteps == 0
DefaultKsize1 == 5
DefaultKsize2 == 5
DefaultNfil1 == 10
DefaultNfil2 == 20
StepsAt512 == 10000
RefBatchSize == 512
MaxSaveFreq == 100
SaveFreqDivisor == 100
MaxEvalFreq == 2000
EvalFreqDivisor == 5
EvalSteps == 1

DefaultLearningRate == "0.01"
DefaultModel == "linear"
DefaultJobDir == "junk"
DefaultDprob == "0.25"
DataDir == "mnist/data"

-----------------------------------------------------------------------------
(* Inputs *)

Chars == {"a", "/"}

RECURSIVE StrsOfLen(_)
StrsOfLen(n) ==
  IF n = 0 THEN {<<>>}
  ELSE {Append(s, c) : s \in StrsOfLen(n - 1), c \in Chars}

Strs == UNION {StrsOfLen(n) : n \in 0..MaxStrLen}

BatchSizeArgs == {-3, 0, 7, 512, 5120001}
TrainStepsArgs == {-1, 0, 1, 350, 20000}
LearningRateArgs == {"0.05"}
JobDirArgs == {"gs"}

\* the functions <name>_model of the model module: linear, dnn, cnn1, cnn2
KnownModels == {"linear", "dnn", "cnn1", "cnn2"}
ModelArgs == {"cnn2", "bogus"}

Flags ==
  {"output_dir", "train_batch_size", "learning_rate", "train_steps", "model",
   "job-dir", "batch_norm"}

\* the values a flag can carry when it is given; a flag that is not given
\* carries a filler the script never reads
Given(f, g, values, filler) == IF f \in g THEN values ELSE {filler}

CommandLines ==
  UNION {
    {[given |-> g, output_dir |-> o, train_batch_size |-> b,
      learning_rate |-> l, train_steps |-> t, model |-> m, job_dir |-> j] :
        o \in Given("output_dir", g, Strs, <<>>),
        b \in Given("train_batch_size", g, BatchSizeArgs, 0),
        l \in Given("learning_rate", g, LearningRateArgs, ""),
        t \in Given("train_steps", g, TrainStepsArgs, 0),
        m \in Given("model", g, ModelArgs, ""),
        j \in Given("job-dir", g, JobDirArgs, "")}
    : g \in SUBSET Flags}

\* command lines that sweep --train_batch_size or --train_steps over a range:
\* every batch size up to MaxBatch in absolute value, the batch sizes that
\* derive every step count up to MaxBatch in absolute value, and every
\* --train_steps up to MaxSteps
WideBatchSizes ==
  ((0 - MaxBatch)..MaxBatch)
  \cup {(StepsAt512 * RefBatchSize) \div k : k \in 1..MaxBatch}
  \cup {0 - ((StepsAt512 * RefBatchSize) \div k) : k \in 1..MaxBatch}

WideTrainSteps == (0 - MaxBatch)..MaxSteps

WideCommandLines ==
  {[given |-> {"output_dir", "train_batch_size"}, output_dir |-> <<"a">>,
    train_batch_size |-> b, learning_rate |-> "", train_steps |-> 0,
    model |-> "", job_dir |-> ""] : b \in WideBatchSizes}
  \cup
  {[given |-> {"output_dir", "train_steps"}, output_dir |-> <<"a">>,
    train_batch_size |-> 0, learning_rate |-> "", train_steps |-> t,
    model |-> "", job_dir |-> ""] : t \in WideTrainSteps}

\* TF_CONFIG: not set, set to the empty string, a JSON object without task,
\* with a task without trial, with a trial that is a string or a number
EnvKinds == {"absent", "empty", "object", "task", "trial", "trialnum"}

Environments ==
  {[kind |-> k, trial |-> t] :
     k \in EnvKinds \ {"trial"}, t \in {<<>>}}
  \cup {[kind |-> "trial", trial |-> t] : t \in Strs}

Modes == {"train", "eval", "infer"}

-----------------------------------------------------------------------------
(* Pure functions of the script *)

NoRecord == [k \in {} |-> 0]

Max(a, b) == IF a >= b THEN a ELSE b
Min(a, b) == IF a <= b THEN a ELSE b

\* Python's floor division of integers, b # 0
FloorDiv(a, b) ==
  IF b > 0 THEN a \div b ELSE (0 - a) \div (0 - b)

HparamKeys ==
  {"train_batch_size", "learning_rate", "train_steps", "output_dir", "model",
   "job_dir", "ksize1", "ksize2", "nfil1", "nfil2", "dprob", "batch_norm"}

\* a default that differs from the documented one
DefaultsWrongBatch(k) ==
  CASE k = "train_batch_size" -> RefBatchSize
    [] k = "learning_rate" -> DefaultLearningRate
    [] k = "train_steps" -> DefaultTrainSteps
    [] k = "output_dir" -> <<>>
    [] k = "model" -> DefaultModel
    [] k = "job_dir" -> DefaultJobDir
    [] k = "ksize1" -> DefaultKsize1
    [] k = "ksize2" -> DefaultKsize2
    [] k = "nfil1" -> DefaultNfil1
    [] k = "nfil2" -> DefaultNfil2
    [] k = "dprob" -> DefaultDprob
    [] k = "batch_norm" -> FALSE

\* the default= of each parser.add_argument (None for --output_dir, which
\* is required and so never defaulted)
Defaults(k) ==
  CASE k = "train_batch_size" -> DefaultTrainBatchSize
    [] k = "learning_rate" -> DefaultLearningRate
    [] k = "train_steps" -> DefaultTrainSteps
    [] k = "output_dir" -> <<>>
    [] k = "model" -> DefaultModel
    [] k = "job_dir" -> DefaultJobDir
    [] k = "ksize1" -> DefaultKsize1
    [] k = "ksize2" -> DefaultKsize2
    [] k = "nfil1" -> DefaultNfil1
    [] k = "nfil2" -> DefaultNfil2
    [] k = "dprob" -> DefaultDprob
    [] k = "batch_norm" -> FALSE

\* the flag that sets a key of args.__dict__ ('--job-dir' sets job_dir)
FlagOf(k) == IF k = "job_dir" THEN "job-dir" ELSE k

\* parser.parse_args(): the record args.__dict__
ParseArgs(a) ==
  [k \in HparamKeys |->
     IF FlagOf(k) \notin a.given THEN Defaults(k)
     ELSE CASE k = "train_batch_size" -> a.train_batch_size
            [] k = "learning_rate" -> a.learning_rate
            [] k = "train_steps" -> a.train_steps
            [] k = "output_dir" -> a.output_dir
            [] k = "model" -> a.model
            [] k = "job_dir" -> a.job_dir
            [] k = "batch_norm" -> TRUE]

\* --output_dir made optional
ParseNeverFails(a) == FALSE

\* parse_args() exits with a usage message when a required flag is missing
ParseFails(a) == "output_dir" \notin a.given

\* dict.pop(key, None) and dict.pop(key)
Pop(d, key) == [k \in DOMAIN d \ {key} |-> d[k]]

\* only the flag's spelling is removed
PopFlagNameOnly(d) == Pop(d, "job-dir")

\* hparams.pop('job_dir', None); hparams.pop('job-dir', None)
PopUnused(d) == Pop(Pop(d, "job_dir"), "job-dir")

\* json.loads(os.environ.get('TF_CONFIG', '{}')).get('task', {}).get('trial', '')
TrialId(e) ==
  CASE e.kind = "absent" -> [error |-> "none", isString |-> TRUE, id |-> <<>>]
    [] e.kind = "empty" -> [error |-> "ValueError", isString |-> TRUE, id |-> <<>>]
    [] e.kind = "object" -> [error |-> "none", isString |-> TRUE, id |-> <<>>]
    [] e.kind = "task" -> [error |-> "none", isString |-> TRUE, id |-> <<>>]
    [] e.kind = "trial" -> [error |-> "none", isString |-> TRUE, id |-> e.trial]
    [] e.kind = "trialnum" -> [error |-> "none", isString |-> FALSE, id |-> <<>>]

\* a join that leaves the path alone when there is nothing to append
PathJoinSkipEmpty(a, b) ==
  IF b = <<>> THEN a
  ELSE IF Head(b) = "/" THEN b
  ELSE IF a = <<>> \/ a[Len(a)] = "/" THEN a \o b
  ELSE a \o <<"/">> \o b

\* os.path.join(a, b) of posixpath
PathJoin(a, b) ==
  IF b # <<>> /\ Head(b) = "/" THEN b
  ELSE IF a = <<>> \/ a[Len(a)] = "/" THEN a \o b
  ELSE a \o <<"/">> \o b

\* the test off by one
NeedsDerivationOffByOne(steps) == steps <= 1

\* if hparams['train_steps'] < 1
NeedsDerivation(steps) == steps < 1

\* the reference batch size taken for the step count
DerivedStepsWrongProduct(batch) == FloorDiv(StepsAt512 * StepsAt512, batch)

\* (10000 * 512) // hparams['train_batch_size']
DerivedSteps(batch) == FloorDiv(StepsAt512 * RefBatchSize, batch)

\* the lower clamp forgotten
SaveFreqNoFloor(steps) == Min(MaxSaveFreq, FloorDiv(steps, SaveFreqDivisor))

\* max(1, min(100, hparams['train_steps']/100))
SaveFreq(steps) == Max(1, Min(MaxSaveFreq, FloorDiv(steps, SaveFreqDivisor)))

\* max(1, min(2000, hparams['train_steps']/5))
EvalFreq(steps) == Max(1, Min(MaxEvalFreq, FloorDiv(steps, EvalFreqDivisor)))

\* an unknown name falls back to the default model
ResolveModelFallback(name) ==
  IF name \in KnownModels THEN [error |-> "none", func |-> name]
  ELSE [error |-> "none", func |-> DefaultModel]

\* getattr(model, '{}_model'.format(params['model']))
ResolveModel(name) ==
  IF name \in KnownModels THEN [error |-> "none", func |-> name]
  ELSE [error |-> "AttributeError", func |-> ""]

NoSpec == [mode |-> "", predictions |-> {}, loss |-> FALSE, train_op |-> FALSE,
           eval_metric_ops |-> {}, export_outputs |-> {}]

\* the else branch of the inner test dropped: a train_op in EVAL mode too
EstimatorSpecTrainOpInEval(mode) ==
  [mode |-> mode,
   predictions |-> {"probabilities", "classes"},
   loss |-> mode = "train" \/ mode = "eval",
   train_op |-> mode = "train" \/ mode = "eval",
   eval_metric_ops |->
     IF mode = "train" \/ mode = "eval" THEN {"accuracy"} ELSE {},
   export_outputs |-> {"probabilities", "classes"}]

\* the EstimatorSpec image_classifier builds; loss and train_op are TRUE for
\* a tensor and FALSE for None, the dictionaries are their sets of keys
\* ({} for None)
EstimatorSpec(mode) ==
  LET lossAndMetrics == mode = "train" \/ mode = "eval"
      loss == lossAndMetrics
      evalmetrics == IF lossAndMetrics THEN {"accuracy"} ELSE {}
      train_op == IF lossAndMetrics THEN mode = "train" ELSE FALSE
  IN  [mode |-> mode,
       predictions |-> {"probabilities", "classes"},
       loss |-> loss,
       train_op |-> train_op,
       eval_metric_ops |-> evalmetrics,
       export_outputs |-> {"probabilities", "classes"}]

-----------------------------------------------------------------------------
(* State *)

NoError == [type |-> "none", at |-> ""]
NoRunArgs == [output_dir |-> <<>>, data_dir |-> "", hparams |-> NoRecord]
NoExperiment ==
  [model_dir |-> <<>>, params |-> NoRecord, save_checkpoints_steps |-> 0,
   min_eval_frequency |-> 0, train_steps |-> 0, eval_steps |-> 0]

Init ==
  /\ pc = "start"
  /\ argv \in CommandLines
  /\ env \in Environments
  /\ hparams = NoRecord
  /\ output_dir = <<>>
  /\ error = NoError
  /\ runCalls = 0
  /\ run_args = NoRunArgs
  /\ experiment = NoExperiment
  /\ built = {}
  /\ spec = NoSpec
  /\ modelFnCalls = 0

\* an uncaught exception ends the process
Raise(type, at) ==
  /\ pc' = "failed"
  /\ error' = [type |-> type, at |-> at]

-----------------------------------------------------------------------------
(* The script, statement by statement *)

\* args = parser.parse_args(); hparams = args.__dict__
Parse ==
  /\ pc = "start"
  /\ IF ParseFails(argv)
       THEN /\ Raise("SystemExit", "parse_args")
            /\ UNCHANGED hparams
       ELSE /\ hparams' = ParseArgs(argv)
            /\ pc' = "parsed"
            /\ UNCHANGED error
  /\ UNCHANGED <<argv, env, output_dir, runCalls, run_args, experiment, built,
                 spec, modelFnCalls>>

\* hparams.pop('job_dir', None); hparams.pop('job-dir', None)
DropUnused ==
  /\ pc = "parsed"
  /\ hparams' = PopUnused(hparams)
  /\ pc' = "popped"
  /\ UNCHANGED <<argv, env, output_dir, error, runCalls, run_args, experiment,
                 built, spec, modelFnCalls>>

\* output_dir = hparams.pop('output_dir')
\* output_dir = os.path.join(output_dir, json.loads(...).get(...).get(...))
ComputeOutputDir ==
  /\ pc = "popped"
  /\ hparams' = Pop(hparams, "output_dir")
  /\ LET popped == hparams["output_dir"]
         trial == TrialId(env)
     IN  IF trial.error # "none"
           THEN /\ Raise(trial.error, "json.loads")
                /\ output_dir' = popped
         ELSE IF ~trial.isString
           THEN /\ Raise("AttributeError", "os.path.join")
                /\ output_dir' = popped
         ELSE /\ output_dir' = PathJoin(popped, trial.id)
              /\ pc' = "pathed"
              /\ UNCHANGED error
  /\ UNCHANGED <<argv, env, runCalls, run_args, experiment, built, spec,
                 modelFnCalls>>

\* if hparams['train_steps'] < 1:
\*    hparams['train_steps'] = (10000 * 512) // hparams['train_batch_size']
CalcTrainSteps ==
  /\ pc = "pathed"
  /\ IF NeedsDerivation(hparams["train_steps"])
       THEN IF hparams["train_batch_size"] = 0
              THEN /\ Raise("ZeroDivisionError", "train_steps")
                   /\ UNCHANGED hparams
              ELSE /\ hparams' =
                        [hparams EXCEPT !["train_steps"] =
                           DerivedSteps(hparams["train_batch_size"])]
                   /\ pc' = "ready"
                   /\ UNCHANGED error
       ELSE /\ pc' = "ready"
            /\ UNCHANGED <<hparams, error>>
  /\ UNCHANGED <<argv, env, output_dir, runCalls, run_args, experiment, built,
                 spec, modelFnCalls>>

\* tf.contrib.learn.learn_runner.run(
\*     make_experiment_fn(output_dir, 'mnist/data', hparams), output_dir)
Run ==
  /\ pc = "ready"
  /\ run_args' = [output_dir |-> output_dir, data_dir |-> DataDir,
                  hparams |-> hparams]
  /\ runCalls' = runCalls + 1
  /\ pc' = "running"
  /\ UNCHANGED <<argv, env, hparams, output_dir, error, experiment, built,
                 spec, modelFnCalls>>

-----------------------------------------------------------------------------
(* The callbacks the run loop calls *)

\* experiment_fn(output_dir), with create_custom_estimator
ExperimentFn ==
  /\ pc = "running"
  /\ experiment' =
       [model_dir |-> run_args.output_dir,
        params |-> run_args.hparams,
        save_checkpoints_steps |-> SaveFreq(run_args.hparams["train_steps"]),
        min_eval_frequency |-> EvalFreq(run_args.hparams["train_steps"]),
        train_steps |-> run_args.hparams["train_steps"],
        eval_steps |-> EvalSteps]
  /\ pc' = "looping"
  /\ UNCHANGED <<argv, env, hparams, output_dir, error, runCalls, run_args,
                 built, spec, modelFnCalls>>

\* input_data.read_data_sets fails: the error reaches the process
ReadDataFails ==
  /\ pc = "running"
  /\ Raise("FrameworkError", "read_data_sets")
  /\ UNCHANGED <<argv, env, hparams, output_dir, runCalls, run_args,
                 experiment, built, spec, modelFnCalls>>

\* image_classifier(features, labels, mode, params)
ImageClassifier ==
  /\ pc = "looping"
  /\ modelFnCalls < MaxModelFnCalls
  /\ \E mode \in Modes :
       LET model_func == ResolveModel(experiment.params["model"])
       IN  IF model_func.error # "none"
             THEN /\ Raise(model_func.error, "image_classifier")
                  /\ UNCHANGED <<built, spec>>
             ELSE /\ built' = built \cup {model_func.func}
                  /\ spec' = EstimatorSpec(mode)
                  /\ UNCHANGED <<pc, error>>
  /\ modelFnCalls' = modelFnCalls + 1
  /\ UNCHANGED <<argv, env, hparams, output_dir, runCalls, run_args,
                 experiment>>

\* the run loop returns, once the model function has built the graph
RunReturns ==
  /\ pc = "looping"
  /\ modelFnCalls >= 1
  /\ pc' = "done"
  /\ UNCHANGED <<argv, env, hparams, output_dir, error, runCalls, run_args,
                 experiment, built, spec, modelFnCalls>>

\* the run loop called again after a failure
RunRetried ==
  /\ pc = "looping"
  /\ runCalls <= MaxModelFnCalls
  /\ pc' = "ready"
  /\ UNCHANGED <<argv, env, hparams, output_dir, error, runCalls, run_args,
                 experiment, built, spec, modelFnCalls>>

\* a failure inside the run loop reaches the process
RunFails ==
  /\ pc = "looping"
  /\ Raise("FrameworkError", "learn_runner.run")
  /\ UNCHANGED <<argv, env, hparams, output_dir, runCalls, run_args,
                 experiment, built, spec, modelFnCalls>>

Next ==
  \/ Parse
  \/ DropUnused
  \/ ComputeOutputDir
  \/ CalcTrainSteps
  \/ Run
  \/ ExperimentFn
  \/ ReadDataFails
  \/ ImageClassifier
  \/ RunReturns
  \/ RunFails

Spec == Init /\ [][Next]_vars

\* the same script, started on the wide command lines without TF_CONFIG
InitWide ==
  /\ pc = "start"
  /\ argv \in WideCommandLines
  /\ env = [kind |-> "absent", trial |-> <<>>]
  /\ hparams = NoRecord
  /\ output_dir = <<>>
  /\ error = NoError
  /\ runCalls = 0
  /\ run_args = NoRunArgs
  /\ experiment = NoExperiment
  /\ built = {}
  /\ spec = NoSpec
  /\ modelFnCalls = 0

SpecWide == InitWide /\ [][Next]_vars

-----------------------------------------------------------------------------
(* Properties *)

\* what the command line asks for, with the documented defaults
SuppliedSteps ==
  IF "train_steps" \in argv.given THEN argv.train_steps ELSE 0
SuppliedBatch ==
  IF "train_batch_size" \in argv.given THEN argv.train_batch_size ELSE 100
SuppliedModel ==
  IF "model" \in argv.given THEN argv.model ELSE "linear"

\* learn_runner.run has been called; experiment_fn has built the Experiment
HandedOver == runCalls >= 1
ExperimentBuilt == experiment.eval_steps = 1

\* the path with a separator at its end, the empty path left empty
WithSeparator(path) ==
  IF path = <<>> \/ path[Len(path)] = "/" THEN path ELSE Append(path, "/")

\* the trial id of a TF_CONFIG that parses and has a string or no trial
TrialOfEnv == IF env.kind = "trial" THEN env.trial ELSE <<>>

\* n = floor(a / b) for b # 0, without division
IsFloorOf(n, a, b) ==
  IF b > 0 THEN n * b <= a /\ a < (n + 1) * b
  ELSE n * b >= a /\ a > (n + 1) * b

\* C1 as stated: the output directory handed to the framework is output_dir
\* joined with the trial id when there is one, and the very same string as
\* --output_dir when TF_CONFIG is absent, empty or without task/trial.
C1_OutputDirUnchangedWithoutTrial ==
  HandedOver =>
    /\ env.kind = "trial" /\ env.trial # <<>> /\ Head(env.trial) # "/" =>
         run_args.output_dir = WithSeparator(argv.output_dir) \o env.trial
    /\ env.kind \in {"absent", "empty", "object", "task"} =>
         run_args.output_dir = argv.output_dir

\* C1 amended: the output directory handed to the framework is
\* os.path.join(output_dir, trial): output_dir, a separator unless output_dir
\* is empty or ends with one, then the trial id (a trial id that starts with
\* a separator replaces output_dir); without a trial id (TF_CONFIG absent or
\* JSON without task/trial) that is output_dir with the separator appended,
\* not always the same string; with TF_CONFIG set to the empty string the
\* script ends in a ValueError of json.loads and hands nothing over.
C1_OutputDirIsJoined ==
  /\ HandedOver =>
       /\ env.kind \in {"absent", "object", "task", "trial"}
       /\ run_args.output_dir = output_dir
       /\ ExperimentBuilt => experiment.model_dir = output_dir
       /\ TrialOfEnv = <<>> => output_dir = WithSeparator(argv.output_dir)
       /\ TrialOfEnv # <<>> /\ Head(TrialOfEnv) # "/" =>
            output_dir = WithSeparator(argv.output_dir) \o TrialOfEnv
       /\ TrialOfEnv # <<>> /\ Head(TrialOfEnv) = "/" =>
            output_dir = TrialOfEnv
  /\ env.kind = "empty" /\ "output_dir" \in argv.given
       /\ pc \notin {"start", "parsed", "popped"} =>
         /\ pc = "failed"
         /\ error = [type |-> "ValueError", at |-> "json.loads"]
         /\ runCalls = 0

C1_Witness ==
  /\ HandedOver
  /\ env.kind = "absent"
  /\ argv.output_dir = <<"a">>
  /\ run_args.output_dir = <<"a", "/">>

\* C2: with train_steps 0, given or defaulted, and a positive
\* train_batch_size, the step count in the record and the one passed to the
\* framework is floor(10000*512 / train_batch_size).
C2_DerivedStepCount ==
  HandedOver /\ SuppliedSteps = 0 /\ SuppliedBatch > 0 =>
    /\ IsFloorOf(run_args.hparams["train_steps"], 10000 * 512, SuppliedBatch)
    /\ hparams["train_steps"] = run_args.hparams["train_steps"]
    /\ ExperimentBuilt =>
         experiment.train_steps = run_args.hparams["train_steps"]

C2_Witness ==
  /\ ExperimentBuilt
  /\ "train_steps" \notin argv.given
  /\ "train_batch_size" \in argv.given
  /\ argv.train_batch_size = 7
  /\ experiment.train_steps = 731428

\* C3: a --model value the model module has no function for is accepted by
\* the parser, is never replaced by another model (no model function is
\* invoked and no EstimatorSpec is built), and the call of image_classifier
\* ends the process with the AttributeError of the lookup; the run never
\* succeeds.
C3_UnknownModelFailsAtLookup ==
  /\ built \subseteq {SuppliedModel}
  /\ SuppliedModel \notin KnownModels =>
       /\ built = {}
       /\ spec = NoSpec
       /\ pc # "done"
       /\ error.type = "SystemExit" => "output_dir" \notin argv.given
       /\ HandedOver => run_args.hparams["model"] = SuppliedModel
       /\ modelFnCalls >= 1 =>
            /\ pc = "failed"
            /\ error = [type |-> "AttributeError", at |-> "image_classifier"]

C3_Witness ==
  /\ "model" \in argv.given
  /\ argv.model = "bogus"
  /\ modelFnCalls = 1
  /\ pc = "failed"
  /\ error.at = "image_classifier"

\* C4: the record passed to make_experiment_fn and to the Estimator as
\* params has neither a job-dir nor a job_dir key, with or without --job-dir.
C4_NoJobDirDownstream ==
  /\ HandedOver =>
       {"job-dir", "job_dir"} \cap DOMAIN run_args.hparams = {}
  /\ ExperimentBuilt =>
       {"job-dir", "job_dir"} \cap DOMAIN experiment.params = {}

C4_Witness ==
  /\ ExperimentBuilt
  /\ "job-dir" \in argv.given
  /\ "train_batch_size" \in DOMAIN experiment.params

\* C5: without --output_dir the script ends in the parser's failure before
\* an output path is computed or the run loop is called; with --output_dir
\* the parser never fails, in particular when it is the only flag.
C5_OutputDirRequired ==
  /\ "output_dir" \notin argv.given /\ pc # "start" =>
       /\ pc = "failed"
       /\ error = [type |-> "SystemExit", at |-> "parse_args"]
       /\ hparams = NoRecord
       /\ output_dir = <<>>
       /\ runCalls = 0
  /\ "output_dir" \in argv.given => error.type # "SystemExit"
  /\ argv.given = {"output_dir"} /\ pc # "start" =>
       /\ error.at # "parse_args"
       /\ DOMAIN hparams # {}

C5_Witness ==
  /\ argv.given = Flags \ {"output_dir"}
  /\ pc = "failed"
  /\ error.type = "SystemExit"

\* C6: with --output_dir alone the record passed downstream has
\* train_batch_size 100, learning_rate 0.01, model linear, batch_norm false
\* and train_steps 51200.
C6_DefaultRecord ==
  HandedOver /\ argv.given = {"output_dir"} =>
    /\ run_args.hparams["train_batch_size"] = 100
    /\ run_args.hparams["learning_rate"] = "0.01"
    /\ run_args.hparams["model"] = "linear"
    /\ run_args.hparams["batch_norm"] = FALSE
    /\ run_args.hparams["train_steps"] = 51200
    /\ ExperimentBuilt => experiment.params = run_args.hparams

C6_Witness ==
  /\ ExperimentBuilt
  /\ argv.given = {"output_dir"}
  /\ experiment.params["train_steps"] = 51200

\* C7: learn_runner.run is called at most once, and only after the parse
\* succeeded, job_dir, job-dir and output_dir left the record, the output
\* path was computed and train_steps was finalised (the record and the path
\* no longer change); a failure, of that call or before it, ends the
\* process: nothing runs after it and the call is not made again.
C7_SingleRunCall ==
  /\ runCalls <= 1
  /\ runCalls = 1 =>
       /\ "output_dir" \in argv.given
       /\ pc \in {"running", "looping", "done", "failed"}
       /\ {"job-dir", "job_dir", "output_dir"} \cap DOMAIN hparams = {}
       /\ run_args.hparams = hparams
       /\ run_args.output_dir = output_dir
       /\ error.at \in {"", "read_data_sets", "image_classifier",
                        "learn_runner.run"}
  /\ runCalls = 0 =>
       /\ pc \in {"start", "parsed", "popped", "pathed", "ready", "failed"}
       /\ ~ExperimentBuilt
       /\ modelFnCalls = 0
  /\ pc = "failed" <=> error # NoError
  /\ pc \in {"failed", "done"} => ~ENABLED Next

C7_Witness ==
  /\ runCalls = 1
  /\ pc = "failed"
  /\ error = [type |-> "FrameworkError", at |-> "learn_runner.run"]
  /\ modelFnCalls >= 1

\* C8: the EstimatorSpec of image_classifier has a loss and eval metrics
\* exactly in TRAIN and EVAL mode, a train_op exactly in TRAIN mode, and
\* predictions and export outputs (probabilities and classes) in every mode.
C8_SpecByMode ==
  modelFnCalls >= 1 /\ built # {} =>
    /\ spec.mode \in {"train", "eval", "infer"}
    /\ spec.loss <=> spec.mode \in {"train", "eval"}
    /\ spec.eval_metric_ops # {} <=> spec.mode \in {"train", "eval"}
    /\ spec.train_op <=> spec.mode = "train"
    /\ spec.predictions = {"probabilities", "classes"}
    /\ spec.export_outputs = {"probabilities", "classes"}

C8_Witness ==
  /\ modelFnCalls >= 1
  /\ spec.mode = "infer"
  /\ ~spec.loss
  /\ ~spec.train_op
  /\ spec.eval_metric_ops = {}
  /\ spec.predictions = {"probabilities", "classes"}

\* C9: a supplied train_steps of 1 or more reaches the framework unchanged
\* whatever the batch size; a supplied train_steps below 1 is replaced by
\* floor(10000*512 / train_batch_size); and the derivation changes no other
\* key of the record.
C9_State ==
  HandedOver =>
    /\ SuppliedSteps >= 1 => run_args.hparams["train_steps"] = SuppliedSteps
    /\ SuppliedSteps < 1 =>
         /\ SuppliedBatch # 0
         /\ IsFloorOf(run_args.hparams["train_steps"], 10000 * 512,
                      SuppliedBatch)
    /\ ExperimentBuilt =>
         experiment.train_steps = run_args.hparams["train_steps"]

C9_Step ==
  pc = "pathed" =>
    /\ DOMAIN hparams' = DOMAIN hparams
    /\ \A k \in DOMAIN hparams \ {"train_steps"} : hparams'[k] = hparams[k]
    /\ output_dir' = output_dir
    /\ hparams'["train_steps"] # hparams["train_steps"] =>
         hparams["train_steps"] < 1

C9_StepsReplacedOnlyBelowOne == [](C9_State) /\ [][C9_Step]_vars

C9_Witness ==
  /\ HandedOver
  /\ "train_steps" \in argv.given
  /\ argv.train_steps = 1
  /\ "train_batch_size" \in argv.given
  /\ argv.train_batch_size = 7
  /\ run_args.hparams["train_steps"] = 1

\* C10: for every train_steps in the record the checkpoint interval is
\* max(1, min(100, train_steps/100)), in 1..100 and 1 below 200 steps, and
\* the minimum evaluation frequency is max(1, min(2000, train_steps/5)), in
\* 1..2000 and 1 below 10 steps.
C10_Frequencies ==
  ExperimentBuilt =>
    LET t == experiment.train_steps
        s == experiment.save_checkpoints_steps
        e == experiment.min_eval_frequency
    IN  /\ t = run_args.hparams["train_steps"]
        /\ s \in 1..100
        /\ e \in 1..2000
        /\ t < 200 => s = 1
        /\ t < 10 => e = 1
        /\ t >= 200 /\ t < 10000 => IsFloorOf(s, t, 100)
        /\ t >= 10 /\ t < 10000 => IsFloorOf(e, t, 5)
        /\ t >= 10000 => s = 100 /\ e = 2000

C10_Witness ==
  /\ ExperimentBuilt
  /\ experiment.train_steps < 0
  /\ experiment.save_checkpoints_steps = 1
  /\ experiment.min_eval_frequency = 1

====
